---- MODULE Spec2Model ----
(***************************************************************************)
(* The topic broker of "MultiThreading Project/server.cpp": the accept     *)
(* loop of main, one handle_client thread per accepted connection, the     *)
(* shared vector `clients` and its mutex `clients_mtx`.                    *)
(*                                                                         *)
(* A connection is named by the order in which it was accepted: the k-th   *)
(* accepted connection is served by thread k, and its ClientInfo is        *)
(* clients[k], because main only ever push_backs and nothing erases.       *)
(* The SOCKET value of a connection is a handle the operating system       *)
(* hands out at accept; a handle that was closed may be handed out again.  *)
(* A recv that returns n > 0 is taken to have filled msg with one whole     *)
(* frame.                                                                  *)
(***************************************************************************)
EXTENDS Integers, Sequences, FiniteSets, TLC

\* ------------------------------------------------------------------ bounds

\* Connections accepted in one run.
MaxConns == 2
\* Distinct SOCKET values the operating system hands out.
MaxHandles == 2

Conn == 1..MaxConns
Handles == 1..MaxHandles
\* Topic names carried by SUBSCRIBE and PUBLISH frames.
Topics == {"A", "B"}

\* --------------------------------------------------------- message types

TYPE_SUBSCRIBE == 10
TYPE_PUBLISH == 11
TYPE_MSG == 12
TYPE_ACK == 2
TYPE_TERM == 3

\* The thread that runs main (handler threads are numbered from 1).
MainThread == 0

\* struct Message, without the content bytes.
Message == [type : {TYPE_SUBSCRIBE, TYPE_PUBLISH, TYPE_MSG, TYPE_ACK, TYPE_TERM},
            topic : Topics \cup {""}]

\* The frames a peer puts on a connection: requests with a topic, TERM, and
\* a frame of a type the dispatch has no branch for.
Frames == [type : {TYPE_SUBSCRIBE, TYPE_PUBLISH}, topic : Topics]
          \cup [type : {TYPE_TERM, TYPE_ACK}, topic : {""}]

\* `Message msg;` before the first recv: never read by the handler.
NoMsg == [type |-> TYPE_MSG, topic |-> ""]

\* ClientInfo{clientSock, "", false}
ClientInfo(s) == [sock |-> s, topic |-> "", subscribed |-> FALSE]

VARIABLES
    clients,      \* vector<ClientInfo> clients
    clients_mtx,  \* the set of threads holding clients_mtx
    open,         \* the SOCKET values that are open connections
    mainPc,       \* where main's accept loop stands
    clientSock,   \* main's local clientSock, the handle accept returned
    pc,           \* where each handle_client thread stands
    msg,          \* each handler's local msg, the frame recv last filled
    idx,          \* each handler's position in its `for (auto &c : clients)`
    reply,        \* the ACK frames a handler sent on its own socket for msg
    fanout,       \* the entries the running PUBLISH fan-out has sent to
    fanLive,      \* the connections being served when that fan-out began
    requested,    \* the topics of the SUBSCRIBEs each handler has answered
    b64,          \* one run of client.cpp's b64_encode / b64_decode
    wire,         \* one frame built and parsed by client.cpp's packet helpers
    udp,          \* one session of client.cpp on the datagram transport
    stream,       \* one connection's bytes as handle_client's recv takes them
    echo,         \* one client of "Assign 5" and its server
    field,        \* one line through the content field of "Assign 5"
    tcp           \* one publisher of client.cpp on a connection to the broker

vars == <<clients, clients_mtx, open, mainPc, clientSock, pc, msg, idx,
          reply, fanout, fanLive, requested>>

\* What is not the broker's, and all of the state.
others == <<b64, wire, udp, stream, echo, field, tcp>>
allvars == <<vars, others>>

\* A part of the model that a specification does not run.
Off == [pc |-> "off"]

\* A handler between its creation and its return.
Live == {"recv", "sub_lock", "sub_loop", "sub_ack",
         "pub_lock", "pub_loop", "pub_ack", "term"}

\* The connections a handler thread is serving.
Serving == {c \in Conn : pc[c] \in Live}

\* The socket handle_client(c) was started with: main pushed it as clients[c].
SockOf(c) == clients[c].sock

\* A fan-out that forgets to compare the topic.
Matches_AnyTopic(ci, m) == ci.subscribed

\* The loop condition `c.subscribed && c.topic == msg.topic` of the fan-out.
Matches(ci, m) == ci.subscribed /\ ci.topic = m.topic

\* The entries a fan-out for topic t sends to.
SubscribersOf(t) ==
    {k \in DOMAIN clients : Matches(clients[k], [type |-> TYPE_PUBLISH, topic |-> t])}

\* Message ack{}; ack.type = TYPE_ACK; strncpy(ack.topic, msg.topic, TOPIC_LEN);
AckFor(m) == [type |-> TYPE_ACK, topic |-> m.topic]

TypeOK ==
    /\ clients \in Seq([sock : Handles, topic : Topics \cup {""}, subscribed : BOOLEAN])
    /\ clients_mtx \subseteq Conn \cup {MainThread}
    /\ open \subseteq Handles
    /\ mainPc \in {"accept", "lock", "push", "spawn"}
    /\ clientSock \in Handles \cup {0}
    /\ pc \in [Conn -> Live \cup {"none", "terminated", "disconnected"}]
    /\ msg \in [Conn -> Message]
    /\ idx \in [Conn -> 0..(MaxConns + 1)]
    /\ reply \in [Conn -> Seq(Message)]
    /\ fanout \in Seq(Conn)
    /\ fanLive \subseteq Conn
    /\ requested \in [Conn -> SUBSET Topics]

\* The broker before its first accept.
BrokerInit ==
    /\ clients = <<>>
    /\ clients_mtx = {}
    /\ open = {}
    /\ mainPc = "accept"
    /\ clientSock = 0
    /\ pc = [c \in Conn |-> "none"]
    /\ msg = [c \in Conn |-> NoMsg]
    /\ idx = [c \in Conn |-> 0]
    /\ reply = [c \in Conn |-> <<>>]
    /\ fanout = <<>>
    /\ fanLive = {}
    /\ requested = [c \in Conn |-> {}]

Init ==
    /\ BrokerInit
    /\ b64 = Off /\ wire = Off /\ udp = Off
    /\ stream = Off /\ echo = Off /\ field = Off /\ tcp = Off

\* ------------------------------------------------------------------- main

\* The handles used so far, open or closed.
Used == {clients[k].sock : k \in DOMAIN clients} \cup open

\* accept(): a new connection on a handle that is not open. A handle never
\* used before is the least such one (handles differ only by equality).
Accept ==
    /\ mainPc = "accept"
    /\ Len(clients) < MaxConns
    /\ \E h \in Handles \ open :
          /\ h \in Used \/ \A g \in Handles \ Used : h <= g
          /\ clientSock' = h
          /\ open' = open \cup {h}
    /\ mainPc' = "lock"
    /\ UNCHANGED <<clients, clients_mtx, pc, msg, idx, reply, fanout, fanLive, requested>>

\* lock_guard<mutex> lock(clients_mtx) in main.
MainLock ==
    /\ mainPc = "lock"
    /\ clients_mtx = {}
    /\ clients_mtx' = {MainThread}
    /\ mainPc' = "push"
    /\ UNCHANGED <<clients, open, clientSock, pc, msg, idx, reply, fanout, fanLive, requested>>

\* clients.push_back(ClientInfo{clientSock, "", false}); the guard's scope ends.
MainPush ==
    /\ mainPc = "push"
    /\ clients' = Append(clients, ClientInfo(clientSock))
    /\ clients_mtx' = clients_mtx \ {MainThread}
    /\ mainPc' = "spawn"
    /\ UNCHANGED <<open, clientSock, pc, msg, idx, reply, fanout, fanLive, requested>>

\* thread t(handle_client, clientSock); t.detach();
Spawn ==
    /\ mainPc = "spawn"
    /\ pc' = [pc EXCEPT ![Len(clients)] = "recv"]
    /\ mainPc' = "accept"
    /\ UNCHANGED <<clients, clients_mtx, open, clientSock, msg, idx, reply, fanout, fanLive, requested>>

\* ---------------------------------------------------------- handle_client

\* The handler returns: its locals are gone, and so is what was noted of it.
Return(c) ==
    /\ msg' = [msg EXCEPT ![c] = NoMsg]
    /\ reply' = [reply EXCEPT ![c] = <<>>]
    /\ requested' = [requested EXCEPT ![c] = {}]

\* recv returned n > 0 with frame f in msg; the if/else-if chain picks the
\* branch. A frame of any other type falls through to the next recv.
HC_Recv(c, f) ==
    /\ pc[c] = "recv"
    /\ msg' = [msg EXCEPT ![c] = f]
    /\ reply' = [reply EXCEPT ![c] = <<>>]
    /\ pc' = [pc EXCEPT ![c] =
                 CASE f.type = TYPE_SUBSCRIBE -> "sub_lock"
                   [] f.type = TYPE_PUBLISH -> "pub_lock"
                   [] f.type = TYPE_TERM -> "term"
                   [] OTHER -> "recv"]
    /\ UNCHANGED <<clients, clients_mtx, open, mainPc, clientSock, idx, fanout, fanLive, requested>>

\* recv returned n <= 0: closesocket(clientSock); return;
HC_Disconnect(c) ==
    /\ pc[c] = "recv"
    /\ open' = open \ {SockOf(c)}
    /\ pc' = [pc EXCEPT ![c] = "disconnected"]
    /\ Return(c)
    /\ UNCHANGED <<clients, clients_mtx, mainPc, clientSock, idx, fanout, fanLive>>

\* A subscribe branch that walks the registry without taking clients_mtx.
HC_SubLock_NoLock(c) ==
    /\ pc[c] = "sub_lock"
    /\ idx' = [idx EXCEPT ![c] = 1]
    /\ pc' = [pc EXCEPT ![c] = "sub_loop"]
    /\ UNCHANGED <<clients, clients_mtx, open, mainPc, clientSock, msg, reply, fanout, fanLive, requested>>

\* TYPE_SUBSCRIBE: lock_guard<mutex> lock(clients_mtx);
HC_SubLock(c) ==
    /\ pc[c] = "sub_lock"
    /\ clients_mtx = {}
    /\ clients_mtx' = {c}
    /\ idx' = [idx EXCEPT ![c] = 1]
    /\ pc' = [pc EXCEPT ![c] = "sub_loop"]
    /\ UNCHANGED <<clients, open, mainPc, clientSock, msg, reply, fanout, fanLive, requested>>

\* A subscribe loop body that marks the entry and forgets the topic.
SubscribeEntry_NoTopic(ci, s, m) ==
    IF ci.sock = s THEN [ci EXCEPT !.subscribed = TRUE] ELSE ci

\* The body of the subscribe loop for one entry:
\* if (c.sock == clientSock) { c.subscribed = true; c.topic = msg.topic; }
SubscribeEntry(ci, s, m) ==
    IF ci.sock = s THEN [ci EXCEPT !.subscribed = TRUE, !.topic = m.topic] ELSE ci

\* One iteration of `for (auto &c : clients)` in the subscribe branch, or its end.
HC_SubLoop(c) ==
    /\ pc[c] = "sub_loop"
    /\ IF idx[c] <= Len(clients)
         THEN /\ clients' = [clients EXCEPT
                                ![idx[c]] = SubscribeEntry(clients[idx[c]], SockOf(c), msg[c])]
              /\ idx' = [idx EXCEPT ![c] = idx[c] + 1]
              /\ pc' = pc
         ELSE /\ clients' = clients
              /\ idx' = [idx EXCEPT ![c] = 0]
              /\ pc' = [pc EXCEPT ![c] = "sub_ack"]
    /\ UNCHANGED <<clients_mtx, open, mainPc, clientSock, msg, reply, fanout, fanLive, requested>>

\* send(clientSock, &ack) of the subscribe branch, then the branch's scope
\* ends and the lock_guard releases clients_mtx.
HC_SubAck(c) ==
    /\ pc[c] = "sub_ack"
    /\ reply' = [reply EXCEPT ![c] = Append(reply[c], AckFor(msg[c]))]
    /\ requested' = [requested EXCEPT ![c] = requested[c] \cup {msg[c].topic}]
    /\ clients_mtx' = clients_mtx \ {c}
    /\ pc' = [pc EXCEPT ![c] = "recv"]
    /\ UNCHANGED <<clients, open, mainPc, clientSock, msg, idx, fanout, fanLive>>

\* TYPE_PUBLISH: lock_guard<mutex> lock(clients_mtx);
HC_PubLock(c) ==
    /\ pc[c] = "pub_lock"
    /\ clients_mtx = {}
    /\ clients_mtx' = {c}
    /\ idx' = [idx EXCEPT ![c] = 1]
    /\ fanout' = <<>>
    /\ fanLive' = Serving
    /\ pc' = [pc EXCEPT ![c] = "pub_loop"]
    /\ UNCHANGED <<clients, open, mainPc, clientSock, msg, reply, requested>>

\* A fan-out that ends at the first send to a socket that is closed.
HC_PubLoop_StopOnFailure(c) ==
    /\ pc[c] = "pub_loop"
    /\ IF idx[c] <= Len(clients)
         THEN /\ fanout' = IF Matches(clients[idx[c]], msg[c])
                             THEN Append(fanout, idx[c]) ELSE fanout
              /\ IF Matches(clients[idx[c]], msg[c])
                        /\ clients[idx[c]].sock \notin open
                   THEN /\ idx' = [idx EXCEPT ![c] = 0]
                        /\ pc' = [pc EXCEPT ![c] = "pub_ack"]
                   ELSE /\ idx' = [idx EXCEPT ![c] = idx[c] + 1]
                        /\ pc' = pc
         ELSE /\ fanout' = fanout
              /\ idx' = [idx EXCEPT ![c] = 0]
              /\ pc' = [pc EXCEPT ![c] = "pub_ack"]
    /\ UNCHANGED <<clients, clients_mtx, open, mainPc, clientSock, msg, reply, fanLive, requested>>

\* One iteration of `for (auto &c : clients)` in the publish branch, or its
\* end: if (c.subscribed && c.topic == msg.topic) send(c.sock, &msg).
HC_PubLoop(c) ==
    /\ pc[c] = "pub_loop"
    /\ IF idx[c] <= Len(clients)
         THEN /\ fanout' = IF Matches(clients[idx[c]], msg[c])
                             THEN Append(fanout, idx[c]) ELSE fanout
              /\ idx' = [idx EXCEPT ![c] = idx[c] + 1]
              /\ pc' = pc
         ELSE /\ fanout' = fanout
              /\ idx' = [idx EXCEPT ![c] = 0]
              /\ pc' = [pc EXCEPT ![c] = "pub_ack"]
    /\ UNCHANGED <<clients, clients_mtx, open, mainPc, clientSock, msg, reply, fanLive, requested>>

\* A publish branch that acknowledges only when some subscriber matched.
HC_PubAck_OnlyWhenMatched(c) ==
    /\ pc[c] = "pub_ack"
    /\ reply' = [reply EXCEPT ![c] =
                    IF fanout = <<>> THEN reply[c] ELSE Append(reply[c], AckFor(msg[c]))]
    /\ clients_mtx' = clients_mtx \ {c}
    /\ fanout' = <<>>
    /\ fanLive' = {}
    /\ pc' = [pc EXCEPT ![c] = "recv"]
    /\ UNCHANGED <<clients, open, mainPc, clientSock, msg, idx, requested>>

\* send(clientSock, &ack) of the publish branch, then the branch's scope ends
\* and the lock_guard releases clients_mtx.
HC_PubAck(c) ==
    /\ pc[c] = "pub_ack"
    /\ reply' = [reply EXCEPT ![c] = Append(reply[c], AckFor(msg[c]))]
    /\ clients_mtx' = clients_mtx \ {c}
    /\ fanout' = <<>>
    /\ fanLive' = {}
    /\ pc' = [pc EXCEPT ![c] = "recv"]
    /\ UNCHANGED <<clients, open, mainPc, clientSock, msg, idx, requested>>

\* A TERM branch that closes the socket and forgets to return.
HC_Terminate_NoReturn(c) ==
    /\ pc[c] = "term"
    /\ open' = open \ {SockOf(c)}
    /\ pc' = [pc EXCEPT ![c] = "recv"]
    /\ UNCHANGED <<clients, clients_mtx, mainPc, clientSock, msg, idx, reply, fanout, fanLive, requested>>

\* TYPE_TERM: closesocket(clientSock); return;
HC_Terminate(c) ==
    /\ pc[c] = "term"
    /\ open' = open \ {SockOf(c)}
    /\ pc' = [pc EXCEPT ![c] = "terminated"]
    /\ Return(c)
    /\ UNCHANGED <<clients, clients_mtx, mainPc, clientSock, idx, fanout, fanLive>>

\* A step of the broker; what is not the broker's stands still.
Next ==
    \/ Accept /\ UNCHANGED others
    \/ MainLock /\ UNCHANGED others
    \/ MainPush /\ UNCHANGED others
    \/ Spawn /\ UNCHANGED others
    \/ \E c \in Conn, f \in Frames : HC_Recv(c, f) /\ UNCHANGED others
    \/ \E c \in Conn : HC_Disconnect(c) /\ UNCHANGED others
    \/ \E c \in Conn : HC_SubLock(c) /\ UNCHANGED others
    \/ \E c \in Conn : HC_SubLoop(c) /\ UNCHANGED others
    \/ \E c \in Conn : HC_SubAck(c) /\ UNCHANGED others
    \/ \E c \in Conn : HC_PubLock(c) /\ UNCHANGED others
    \/ \E c \in Conn : HC_PubLoop(c) /\ UNCHANGED others
    \/ \E c \in Conn : HC_PubAck(c) /\ UNCHANGED others
    \/ \E c \in Conn : HC_Terminate(c) /\ UNCHANGED others

Spec == Init /\ [][Next]_allvars

\* ----------------------------------------------------------------- claims

\* The handles the fan-out in progress has sent a frame to, entry by entry.
FanoutTo(h) == {i \in DOMAIN fanout : clients[fanout[i]].sock = h}

\* The handler is at a send: the ACK of either branch, or the fan-out send
\* of the iteration it is about to run.
SendInProgress(c) ==
    \/ pc[c] \in {"sub_ack", "pub_ack"}
    \/ /\ pc[c] = "pub_loop"
       /\ idx[c] <= Len(clients)
       /\ Matches(clients[idx[c]], msg[c])

\* C1: once the handler of endpoint e has processed TERMINATE, e is in the
\* subscriber set of no topic, and no fan-out that begins afterwards sends a
\* frame for e's registry entry.
C1_TerminatedNotSubscribed ==
    \A e \in Conn : pc[e] = "terminated" =>
        /\ \A t \in Topics : e \notin SubscribersOf(t)
        /\ \A i \in DOMAIN fanout : fanout[i] = e => e \in fanLive

\* C2: once a session has ended because recv reported close or error, its
\* registry entry is gone: the endpoint is a fan-out target of no topic and
\* no fan-out that begins afterwards sends a frame for its entry.
C2_DisconnectedNotSubscribed ==
    \A e \in Conn : pc[e] = "disconnected" =>
        /\ \A t \in Topics : e \notin SubscribersOf(t)
        /\ \A i \in DOMAIN fanout : fanout[i] = e => e \in fanLive

\* The endpoints subscribed to the topic of p's PUBLISH when its fan-out
\* began: served then, and a SUBSCRIBE for that topic answered.
ExpectedTargets(p) == {e \in fanLive : msg[p].topic \in requested[e]}

\* C3: when the fan-out of a PUBLISH on T is complete, exactly N frames were
\* sent, N the number of endpoints subscribed to T when it began, and each of
\* those endpoints was sent exactly one (no session having ended meanwhile).
C3_FanoutExactlyOnePerSubscriber ==
    \A p \in Conn : (pc[p] = "pub_ack" /\ fanLive \subseteq Serving) =>
        /\ Len(fanout) = Cardinality(ExpectedTargets(p))
        /\ \A e \in ExpectedTargets(p) : Cardinality(FanoutTo(SockOf(e))) = 1

\* C4: a PUBLISH being processed has been answered by nothing yet, and once
\* processed it has been answered by exactly one ACK with the PUBLISH's
\* topic on the publisher's own socket, the handler being back at recv.
C4_PublishAckedOnce ==
    \A c \in Conn : msg[c].type = TYPE_PUBLISH =>
        \/ pc[c] \in {"pub_lock", "pub_loop", "pub_ack"} /\ reply[c] = <<>>
        \/ pc[c] = "recv" /\ reply[c] = <<[type |-> TYPE_ACK, topic |-> msg[c].topic]>>

\* C4 witness: two PUBLISHes have been acknowledged, one by a publisher that
\* is itself the subscriber of its topic, the other on a topic that no entry
\* of the registry ever carried.
C4_Witness ==
    \E c \in Conn : \E d \in Conn \ {c} :
        /\ Len(clients) = 2
        /\ pc[c] = "recv" /\ msg[c].type = TYPE_PUBLISH /\ Len(reply[c]) = 1
        /\ requested[c] = {msg[c].topic}
        /\ pc[d] = "recv" /\ msg[d].type = TYPE_PUBLISH /\ Len(reply[d]) = 1
        /\ requested[d] = {} /\ ~clients[d].subscribed
        /\ msg[d].topic # msg[c].topic

\* C5: an endpoint whose answered SUBSCRIBEs all name topic a is sent no
\* frame by the fan-out of a PUBLISH on another topic.
C5_TopicIsolation ==
    \A p \in Conn : pc[p] \in {"pub_loop", "pub_ack"} =>
        \A e \in Serving : \A a \in Topics :
            (requested[e] = {a} /\ FanoutTo(SockOf(e)) # {}) => msg[p].topic = a

\* C5 witness: a fan-out on B that sent a frame is complete while an
\* endpoint subscribed only to A is being served.
C5_Witness ==
    \E p \in Conn : \E e \in Serving :
        /\ pc[p] = "pub_ack" /\ msg[p].topic = "B" /\ fanout # <<>>
        /\ requested[e] = {"A"}
        /\ FanoutTo(SockOf(e)) = {}

\* C6: an endpoint waiting for its next frame is a fan-out target of every
\* topic it has subscribed to: a later SUBSCRIBE removes no earlier one.
C6_SubscribeKeepsEarlierTopics ==
    \A e \in Conn : pc[e] = "recv" =>
        \A t \in requested[e] : e \in SubscribersOf(t)

\* C7: a SUBSCRIBE being processed has been answered by nothing yet, and once
\* processed it is recorded in the endpoint's registry entry and has been
\* answered by exactly one ACK with its topic, the handler being back at recv.
C7_SubscribeRecordedAndAcked ==
    \A c \in Conn : msg[c].type = TYPE_SUBSCRIBE =>
        \/ pc[c] \in {"sub_lock", "sub_loop", "sub_ack"} /\ reply[c] = <<>>
        \/ /\ pc[c] = "recv"
           /\ reply[c] = <<[type |-> TYPE_ACK, topic |-> msg[c].topic]>>
           /\ clients[c].subscribed
           /\ clients[c].topic = msg[c].topic

\* C7 witness: a second SUBSCRIBE of one session has been answered.
C7_Witness ==
    \E c \in Conn :
        /\ pc[c] = "recv" /\ msg[c].type = TYPE_SUBSCRIBE /\ Len(reply[c]) = 1
        /\ requested[c] = Topics

\* C8: the TERM branch ends in the terminal state with the socket closed,
\* and a terminated handler takes no further step: it receives nothing,
\* answers nothing, and neither takes the mutex nor walks the registry.
C8_TerminatedIsTerminal ==
    [][\A c \in Conn :
          /\ (pc[c] = "term" /\ pc'[c] # "term") =>
                 (pc'[c] = "terminated" /\ SockOf(c) \notin open')
          /\ pc[c] = "terminated" =>
                 /\ pc'[c] = "terminated"
                 /\ msg'[c] = msg[c] /\ reply'[c] = reply[c]
                 /\ idx'[c] = idx[c] /\ requested'[c] = requested[c]
                 /\ c \notin clients_mtx']_vars

\* C8 witness: a session has terminated, its socket is closed, and another
\* session's PUBLISH is being processed.
C8_Witness ==
    \E c \in Conn : \E d \in Conn :
        /\ pc[c] = "terminated" /\ SockOf(c) \notin open
        /\ pc[d] = "pub_ack"

\* C9: no handler holds clients_mtx while one of its sends is in progress.
C9_NoSendUnderLock ==
    \A c \in Conn : SendInProgress(c) => c \notin clients_mtx

SubscribePending(c) == pc[c] \in {"sub_lock", "sub_loop", "sub_ack"}

\* C11: the first frame on a connection after its SUBSCRIBE is the ACK of
\* that SUBSCRIBE: while the request is unanswered no fan-out has put a
\* frame on the connection since the answer to the one before.
C11_AckIsFirstFrameAfterSubscribe ==
    \A e \in Conn : SubscribePending(e) => FanoutTo(SockOf(e)) = {}

\* ---------------------------------------------------------------- client.cpp

\* const int SUBSCRIBE = 1; ... const int TERM = 5;
SUBSCRIBE == 1
PUBLISH == 2
MSG == 3
ACK == 4
TERM == 5

\* What the fan-out puts on a subscriber's socket: send(c.sock, (char*)&msg,
\* sizeof(msg), 0), the publisher's frame as it was received.
FanoutFrame(m) == m

\* C19: every frame a fan-out has sent carries the DELIVER tag (TYPE_MSG in
\* the broker, MSG in the client, which prints such a frame as a received
\* message) and the topic of the PUBLISH being processed.
C19_FanoutFrameIsDeliver ==
    \A p \in Conn : (pc[p] \in {"pub_loop", "pub_ack"} /\ fanout # <<>>) =>
        /\ FanoutFrame(msg[p]).type \in {TYPE_MSG, MSG}
        /\ FanoutFrame(msg[p]).topic = msg[p].topic

\* ------------------------------------------------------- client.cpp, Base64

\* The longest byte string encoded and the longest text decoded.
MaxLen == 4
MaxText == 8

\* The bytes a string to encode is made of, and the characters of a text to
\* decode: 'A' and '/' (the first and the last of the alphabet), '=' and '!'.
Bytes == {0, 1, 77, 128, 255}
Chars == {65, 47, 61, 33}

\* The sequences over S of at most n elements.
SeqUpTo(S, n) == UNION {[1..k -> S] : k \in 0..n}

\* a | b on unsigned int; every operand here is below 2^26.
RECURSIVE BitOr(_, _)
BitOr(a, b) ==
    IF a = 0 THEN b
    ELSE IF b = 0 THEN a
    ELSE (IF a % 2 = 1 \/ b % 2 = 1 THEN 1 ELSE 0)
             + 2 * BitOr(a \div 2, b \div 2)

\* static const char* B64 = "ABC...XYZabc...xyz0123456789+/", as char codes.
B64 ==
    [i \in 0..63 |->
        IF i < 26 THEN 65 + i
        ELSE IF i < 52 THEN 97 + (i - 26)
        ELSE IF i < 62 THEN 48 + (i - 52)
        ELSE IF i = 62 THEN 43 ELSE 47]

\* A variant of REV that knows no invalid character.
REV_NoInvalid(c) ==
    IF c = 61 THEN 254
    ELSE IF \E i \in 0..63 : B64[i] = c
         THEN CHOOSE i \in 0..63 : B64[i] = c
         ELSE 0

\* REV[c] once init_rev has run: 255, but the index of c in the alphabet,
\* and 254 for '='.
REV(c) ==
    IF c = 61 THEN 254
    ELSE IF \E i \in 0..63 : B64[i] = c
         THEN CHOOSE i \in 0..63 : B64[i] = c
         ELSE 255

\* One round of b64_encode's loop, for the bytes of d from offset i.
EncodeGroup(d, i) ==
    LET n == Len(d)
        v0 == d[i + 1] * 2^16
        v1 == IF i + 1 < n THEN BitOr(v0, d[i + 2] * 2^8) ELSE v0
        v == IF i + 2 < n THEN BitOr(v1, d[i + 3]) ELSE v1
    IN  << B64[(v \div 2^18) % 64],
           B64[(v \div 2^12) % 64],
           IF i + 1 < n THEN B64[(v \div 2^6) % 64] ELSE 61,
           IF i + 2 < n THEN B64[v % 64] ELSE 61 >>

RECURSIVE EncodeFrom(_, _)
EncodeFrom(d, i) ==
    IF i >= Len(d) THEN <<>> ELSE EncodeGroup(d, i) \o EncodeFrom(d, i + 3)

b64_encode(in) == EncodeFrom(in, 0)

\* A variant of DecodeGroup that takes padding for data.
DecodeGroup_NoPadding(c0, c1, c2, c3) ==
    LET v0 == BitOr(c0 * 2^18, c1 * 2^12)
        v1 == BitOr(v0, c2 * 2^6)
        v2 == BitOr(v1, c3)
    IN  << (v0 \div 2^16) % 256, (v1 \div 2^8) % 256, v2 % 256 >>

\* The bytes one round of b64_decode's loop pushes, none of c0..c3 being 255.
DecodeGroup(c0, c1, c2, c3) ==
    LET v0 == BitOr(c0 * 2^18, c1 * 2^12)
        v1 == BitOr(v0, c2 * 2^6)
        v2 == BitOr(v1, c3)
    IN  IF c2 = 254 THEN << (v0 \div 2^16) % 256 >>
        ELSE IF c3 = 254 THEN << (v0 \div 2^16) % 256, (v1 \div 2^8) % 256 >>
        ELSE << (v0 \div 2^16) % 256, (v1 \div 2^8) % 256, v2 % 256 >>

RECURSIVE DecodeFrom(_, _, _)
DecodeFrom(in, i, out) ==
    IF i >= Len(in) THEN [ok |-> TRUE, out |-> out]
    ELSE LET c0 == REV(in[i + 1])
             c1 == REV(in[i + 2])
             c2 == REV(in[i + 3])
             c3 == REV(in[i + 4])
         IN  IF c0 = 255 \/ c1 = 255 \/ c2 = 255 \/ c3 = 255
             THEN [ok |-> FALSE, out |-> out]
             ELSE DecodeFrom(in, i + 4, out \o DecodeGroup(c0, c1, c2, c3))

\* b64_decode(in, out): what it returns and what it leaves in out.
b64_decode(in, out) ==
    IF Len(in) % 4 # 0 THEN [ok |-> FALSE, out |-> out]
    ELSE DecodeFrom(in, 0, <<>>)

\* Either a byte string to encode and decode again, or a text to decode.
InitB64 ==
    /\ BrokerInit
    /\ wire = Off /\ udp = Off
    /\ stream = Off /\ echo = Off /\ field = Off /\ tcp = Off
    /\ \/ \E x \in SeqUpTo(Bytes, MaxLen) :
              b64 = [pc |-> "encode", given |-> "bytes", in |-> x,
                     text |-> <<>>, ok |-> FALSE, out |-> <<>>]
       \/ \E t \in SeqUpTo(Chars, MaxText) :
              b64 = [pc |-> "decode", given |-> "text", in |-> <<>>,
                     text |-> t, ok |-> FALSE, out |-> <<>>]

B64Encode ==
    /\ b64.pc = "encode"
    /\ b64' = [b64 EXCEPT !.pc = "decode", !.text = b64_encode(b64.in)]
    /\ UNCHANGED <<vars, wire, udp, stream, echo, field, tcp>>

B64Decode ==
    /\ b64.pc = "decode"
    /\ LET r == b64_decode(b64.text, b64.out)
       IN  b64' = [b64 EXCEPT !.pc = "done", !.ok = r.ok, !.out = r.out]
    /\ UNCHANGED <<vars, wire, udp, stream, echo, field, tcp>>

NextB64 == B64Encode \/ B64Decode

SpecB64 == InitB64 /\ [][NextB64]_allvars

\* The characters b64_decode accepts: the alphabet and '='.
AlphabetOrPad == {B64[i] : i \in 0..63} \cup {61}

\* C14: decoding the encoding of a byte string succeeds and gives the byte
\* string back, whatever its length.
C14_DecodeInvertsEncode ==
    (b64.pc = "done" /\ b64.given = "bytes") =>
        (b64.ok /\ b64.out = b64.in)

C14_Witness ==
    /\ b64.pc = "done" /\ b64.given = "bytes"
    /\ Len(b64.in) > 3 /\ Len(b64.in) % 3 # 0
    /\ Len(b64.text) = 8 /\ b64.text[8] = 61
    /\ b64.ok /\ b64.out = b64.in

\* C15: b64_decode fails for a text whose length is no multiple of 4 and for
\* a text that holds a character outside the alphabet and '='.
C15_DecodeRejectsLengthAndCharacter ==
    (/\ b64.pc = "done" /\ b64.given = "text"
     /\ \/ Len(b64.text) % 4 # 0
        \/ \E i \in DOMAIN b64.text : b64.text[i] \notin AlphabetOrPad)
        => ~b64.ok

C15_Witness ==
    /\ b64.pc = "done" /\ b64.given = "text"
    /\ Len(b64.text) = 8
    /\ \A i \in 1..7 : b64.text[i] \in AlphabetOrPad \ {61}
    /\ b64.text[8] \notin AlphabetOrPad
    /\ ~b64.ok

\* Position i of text t holds a '=' that is not trailing padding: the first
\* or second character of a group, the third followed by another character
\* than '=', or any character of a group that is not the last.
NonTrailingPad(t, i) ==
    /\ t[i] = 61
    /\ \/ (i - 1) % 4 \in {0, 1}
       \/ (i - 1) % 4 = 2 /\ i + 1 <= Len(t) /\ t[i + 1] # 61
       \/ (i - 1) \div 4 < (Len(t) - 1) \div 4

\* C16: b64_decode fails for a text with a '=' that is not trailing padding.
C16_DecodeRejectsMisplacedPad ==
    (/\ b64.pc = "done" /\ b64.given = "text"
     /\ \E i \in DOMAIN b64.text : NonTrailingPad(b64.text, i))
        => ~b64.ok

\* ------------------------------------------- client.cpp, datagram transport

\* The topics a subscriber names and the lines a publisher reads.
MaxTopics == 2
MaxLines == 2

\* timeval tv{2,0}, and the seconds the client waits for the ACK of a
\* SUBSCRIBE, of a PUBLISH and of a TERM.
RcvTimeo == 2
SubAckWait == 5
PubAckWait == 3
TermAckWait == 2

\* What recv_packet_udp may find in a datagram: a packet that parses, with
\* its type, or one that parse_datagram rejects.
Datagrams ==
    {[ok |-> TRUE, type |-> t] : t \in {ACK, MSG, PUBLISH}}
        \cup {[ok |-> FALSE, type |-> 0]}

\* No datagram is waiting on the socket.
NoDatagram == [ok |-> FALSE, type |-> -1]

\* The states in which the client is inside recv_packet_udp.
Receiving == {"sub_wait", "recv_loop", "pub_wait", "term_wait"}

\* A subscriber with 1..MaxTopics topics, or a publisher, its socket made.
InitUdp ==
    /\ BrokerInit
    /\ b64 = Off /\ wire = Off
    /\ stream = Off /\ echo = Off /\ field = Off /\ tcp = Off
    /\ \/ \E n \in 1..MaxTopics :
              udp = [pc |-> "sub_send", role |-> "sub", left |-> n,
                     lines |-> 0, q |-> NoDatagram, elapsed |-> 0,
                     waited |-> 0, ok |-> FALSE]
       \/ udp = [pc |-> "pub_getline", role |-> "pub", left |-> 0,
                 lines |-> 0, q |-> NoDatagram, elapsed |-> 0,
                 waited |-> 0, ok |-> FALSE]

\* A datagram reaches the socket (one is kept waiting at most).
UdpDeliver(d) ==
    /\ udp.pc \notin {"off", "exit", "closed"}
    /\ udp.q = NoDatagram
    /\ udp' = [udp EXCEPT !.q = d]
    /\ UNCHANGED <<vars, b64, wire, stream, echo, field, tcp>>

\* A second passes while recvfrom blocks; SO_RCVTIMEO ends the call after
\* RcvTimeo of them. The time since start is counted up to SubAckWait + 1.
UdpTick ==
    /\ udp.pc \in Receiving
    /\ udp.q = NoDatagram
    /\ udp.waited < RcvTimeo
    /\ udp' = [udp EXCEPT
                  !.waited = @ + 1,
                  !.elapsed = IF @ > SubAckWait THEN @ ELSE @ + 1]
    /\ UNCHANGED <<vars, b64, wire, stream, echo, field, tcp>>

\* recvfrom returns: with a datagram, or with n < 0 when the timeout ran out.
RecvReturns == udp.q # NoDatagram \/ udp.waited = RcvTimeo

\* What recv_packet_udp returns.
recv_packet_udp == udp.q # NoDatagram /\ udp.q.ok

\* for (t : topics): send SUBSCRIBE, start the clock.
UdpSubscribeSend(sent) ==
    /\ udp.pc = "sub_send"
    /\ udp' = IF sent
              THEN [udp EXCEPT !.pc = "sub_wait", !.elapsed = 0,
                               !.waited = 0, !.ok = FALSE]
              ELSE [udp EXCEPT !.pc = "exit"]
    /\ UNCHANGED <<vars, b64, wire, stream, echo, field, tcp>>

\* The wait for the ACK of a SUBSCRIBE is over: the next topic, or the
\* receive loop after the last.
AfterSubscribe(u, acked) ==
    [u EXCEPT !.pc = IF u.left = 1 THEN "recv_loop" ELSE "sub_send",
              !.left = @ - 1, !.ok = acked, !.q = NoDatagram, !.waited = 0]

\* A round of a wait loop goes back to recv_packet_udp: the clock is read
\* only when recv_packet_udp returned false.
StillWaiting(got, limit) ==
    got \/ ~(udp.elapsed > limit)

\* One round of the while(true) that waits for the ACK of a SUBSCRIBE.
UdpSubWait ==
    /\ udp.pc = "sub_wait"
    /\ RecvReturns
    /\ udp' = IF recv_packet_udp /\ udp.q.type = ACK
              THEN AfterSubscribe(udp, TRUE)
              ELSE IF StillWaiting(recv_packet_udp, SubAckWait)
              THEN [udp EXCEPT !.q = NoDatagram, !.waited = 0]
              ELSE AfterSubscribe(udp, FALSE)
    /\ UNCHANGED <<vars, b64, wire, stream, echo, field, tcp>>

\* One round of the subscriber's receive loop.
UdpRecvLoop ==
    /\ udp.pc = "recv_loop"
    /\ RecvReturns
    /\ udp' = [udp EXCEPT !.q = NoDatagram, !.waited = 0]
    /\ UNCHANGED <<vars, b64, wire, stream, echo, field, tcp>>

\* while (getline(cin, line)): send PUBLISH and start the clock, or leave
\* the loop at the end of the input or when the send failed.
UdpPublish(eof, sent) ==
    /\ udp.pc = "pub_getline"
    /\ eof \/ udp.lines < MaxLines
    /\ udp' = IF eof \/ ~sent
              THEN [udp EXCEPT !.pc = "term_send"]
              ELSE [udp EXCEPT !.pc = "pub_wait", !.lines = @ + 1,
                               !.elapsed = 0, !.waited = 0, !.ok = FALSE]
    /\ UNCHANGED <<vars, b64, wire, stream, echo, field, tcp>>

\* One round of the while(true) that waits for the ACK of a PUBLISH.
UdpPubWait ==
    /\ udp.pc = "pub_wait"
    /\ RecvReturns
    /\ udp' = IF recv_packet_udp /\ udp.q.type = ACK
              THEN [udp EXCEPT !.pc = "pub_getline", !.ok = TRUE,
                               !.q = NoDatagram, !.waited = 0]
              ELSE IF StillWaiting(recv_packet_udp, PubAckWait)
              THEN [udp EXCEPT !.q = NoDatagram, !.waited = 0]
              ELSE [udp EXCEPT !.pc = "pub_getline",
                               !.q = NoDatagram, !.waited = 0]
    /\ UNCHANGED <<vars, b64, wire, stream, echo, field, tcp>>

\* (void)send_packet_udp(fd, srv, TERM, topic, ""), start the clock.
UdpTermSend ==
    /\ udp.pc = "term_send"
    /\ udp' = [udp EXCEPT !.pc = "term_wait", !.elapsed = 0, !.waited = 0]
    /\ UNCHANGED <<vars, b64, wire, stream, echo, field, tcp>>

\* One round of the while(true) that waits for the ACK of the TERM; then
\* close(fd).
UdpTermWait ==
    /\ udp.pc = "term_wait"
    /\ RecvReturns
    /\ udp' = IF (recv_packet_udp /\ udp.q.type = ACK)
                    \/ ~StillWaiting(recv_packet_udp, TermAckWait)
              THEN [udp EXCEPT !.pc = "closed", !.q = NoDatagram,
                               !.waited = 0]
              ELSE [udp EXCEPT !.q = NoDatagram, !.waited = 0]
    /\ UNCHANGED <<vars, b64, wire, stream, echo, field, tcp>>

\* The steps the client takes without waiting for anybody.
UdpClient ==
    \/ UdpSubWait
    \/ UdpRecvLoop
    \/ UdpPubWait
    \/ UdpTermSend
    \/ UdpTermWait

NextUdp ==
    \/ \E d \in Datagrams : UdpDeliver(d)
    \/ UdpTick
    \/ \E sent \in BOOLEAN : UdpSubscribeSend(sent)
    \/ \E eof \in BOOLEAN, sent \in BOOLEAN : UdpPublish(eof, sent)
    \/ UdpClient

\* The client runs when it can, and time does not stop.
SpecUdp ==
    /\ InitUdp
    /\ [][NextUdp]_allvars
    /\ WF_allvars(UdpClient)
    /\ WF_allvars(\E sent \in BOOLEAN : UdpSubscribeSend(sent))
    /\ SF_allvars(UdpTick)

\* C12: a datagram subscriber waiting for the ACK of a SUBSCRIBE stops
\* waiting at some time, with or without the ACK, whatever it receives.
C12_SubscribeWaitEnds == (udp.pc = "sub_wait") ~> (udp.pc # "sub_wait")

\* C13: a datagram publisher waiting for the ACK of a PUBLISH gives up at
\* some time and goes on to the next line, whatever it receives.
C13_PublishWaitEnds == (udp.pc = "pub_wait") ~> (udp.pc = "pub_getline")

\* ------------------------------------------------ client.cpp, wire format

\* The longest topic and payload sent, and the most bytes a received
\* datagram has after its header.
MaxTopicLen == 2
MaxPayloadLen == 2
MaxBody == 3

\* sizeof(Header): three int. vector<char> buf(64*1024).
HeaderSize == 12
BufSize == 65536

\* The types sent: the five tags, a negative int and 0x01020304.
TypeValues == {SUBSCRIBE, PUBLISH, MSG, ACK, TERM, -1, 16909060}

\* The values of a length field received: INT_MIN, INT_MAX and small ones.
Lens == {-2147483647 - 1, -5, -1, 0, 1, 2, 3, 2147483647}

\* The widths size_t has in a build.
SizeBits == {32, 64}

\* The four bytes of u, 0 <= u < 2^31, most significant first.
Bytes4(u) ==
    << u \div 2^24, (u \div 2^16) % 256, (u \div 2^8) % 256, u % 256 >>

\* A variant of htonl that leaves the bytes in little-endian order.
htonl_HostOrder(x) ==
    IF x >= 0 THEN [i \in 1..4 |-> Bytes4(x)[5 - i]]
    ELSE [i \in 1..4 |-> 255 - Bytes4(-(x + 1))[5 - i]]

\* The bytes in memory of htonl(x), x an int (two's complement).
htonl(x) ==
    IF x >= 0 THEN Bytes4(x)
    ELSE [i \in 1..4 |-> 255 - Bytes4(-(x + 1))[i]]

\* The int that ntohl gives for four bytes in memory.
ntohl(b) ==
    IF b[1] < 128
    THEN ((b[1] * 256 + b[2]) * 256 + b[3]) * 256 + b[4]
    ELSE -((((255 - b[1]) * 256 + (255 - b[2])) * 256 + (255 - b[3])) * 256
             + (255 - b[4])) - 1

\* The datagram send_packet_udp hands to sendto: Header, topic, payload.
send_packet_udp(type, topic, payload) ==
    htonl(type) \o htonl(Len(topic)) \o htonl(Len(payload))
        \o topic \o payload

\* (size_t)x for an int x, where size_t has w bits: 16-bit limbs, the least
\* significant first.
SizeT(x, w) ==
    [k \in 1..(w \div 16) |->
        IF k = 1 THEN x % 65536
        ELSE IF k = 2 THEN (x \div 65536) % 65536
        ELSE IF x < 0 THEN 65535 ELSE 0]

\* a + b in size_t: the carry out of the last limb is lost.
RECURSIVE Carry(_, _, _)
Carry(a, b, k) ==
    IF k = 0 THEN 0 ELSE (a[k] + b[k] + Carry(a, b, k - 1)) \div 65536

SizeAdd(a, b) ==
    [k \in DOMAIN a |-> (a[k] + b[k] + Carry(a, b, k - 1)) % 65536]

\* a < b in size_t.
SizeLess(a, b) ==
    \E k \in DOMAIN a :
        /\ a[k] < b[k]
        /\ \A j \in DOMAIN a : j > k => a[j] = b[j]

\* The byte at data + i of recv_packet_udp's buffer, which holds n received
\* bytes and after them what earlier datagrams left (-1, not known).
ByteAt(data, i) == IF i < Len(data) THEN data[i + 1] ELSE -1

\* What parse_datagram leaves when it has not come to the assignments.
Unparsed(ret, type) ==
    [ret |-> ret, type |-> type, topic |-> <<>>, payload |-> <<>>,
     beyond |-> FALSE]

\* parse_datagram(data, n, type, topic, payload) with size_t of w bits: what
\* it returns ("abort": it does not return, string::assign throws
\* std::length_error, which nothing catches, or copies from beyond the
\* buffer), what it assigns, and whether it read a byte beyond the n.
parse_datagram(data, w) ==
    LET n == Len(data) IN
    IF n < HeaderSize THEN Unparsed("false", 0)
    ELSE LET type == ntohl(SubSeq(data, 1, 4))
             tlen == ntohl(SubSeq(data, 5, 8))
             plen == ntohl(SubSeq(data, 9, 12))
             need == SizeAdd(SizeAdd(SizeT(HeaderSize, w), SizeT(tlen, w)),
                             SizeT(plen, w))
         IN  IF SizeLess(SizeT(n, w), need) THEN Unparsed("false", type)
             ELSE IF tlen < 0 \/ tlen > BufSize - HeaderSize
             THEN Unparsed("abort", type)
             ELSE LET topic == [i \in 1..tlen |->
                                   ByteAt(data, HeaderSize + i - 1)]
                      past == tlen > n - HeaderSize
                  IN  IF plen < 0 \/ plen > BufSize - HeaderSize - tlen
                      THEN [ret |-> "abort", type |-> type, topic |-> topic,
                            payload |-> <<>>, beyond |-> past]
                      ELSE [ret |-> "true", type |-> type, topic |-> topic,
                            payload |-> [i \in 1..plen |->
                                ByteAt(data, HeaderSize + tlen + i - 1)],
                            beyond |-> past \/ plen > n - HeaderSize - tlen]

\* How handle_client takes a frame of a type (server.cpp).
Dispatch(type) ==
    IF type = TYPE_SUBSCRIBE THEN "subscribe"
    ELSE IF type = TYPE_PUBLISH THEN "publish"
    ELSE IF type = TYPE_TERM THEN "terminate"
    ELSE "ignored"

\* How the client's loops take a packet of a type.
Recognise(type) ==
    IF type = ACK THEN "ack"
    ELSE IF type = MSG THEN "deliver"
    ELSE "ignored"

\* The first n elements of s.
Take(s, n) == SubSeq(s, 1, n)

\* Either a packet to send, parsed again as it was sent, or a datagram
\* received: a header and up to MaxBody bytes, cut to any length.
InitWire ==
    /\ BrokerInit
    /\ b64 = Off /\ udp = Off
    /\ stream = Off /\ echo = Off /\ field = Off /\ tcp = Off
    /\ \E w \in SizeBits :
        \/ \E ty \in TypeValues, t \in SeqUpTo({65, 66}, MaxTopicLen),
              p \in SeqUpTo({65, 61}, MaxPayloadLen) :
              wire = [pc |-> "send", given |-> "packet", w |-> w,
                      type |-> ty, topic |-> t, payload |-> p,
                      buf |-> <<>>, res |-> Unparsed("none", 0)]
        \/ \E tl \in Lens, pl \in Lens, n \in 0..(HeaderSize + MaxBody) :
              wire = [pc |-> "parse", given |-> "datagram", w |-> w,
                      type |-> MSG, topic |-> <<>>, payload |-> <<>>,
                      buf |-> Take(htonl(MSG) \o htonl(tl) \o htonl(pl)
                                       \o [i \in 1..MaxBody |-> 65], n),
                      res |-> Unparsed("none", 0)]

WireSend ==
    /\ wire.pc = "send"
    /\ wire' = [wire EXCEPT
                   !.pc = "parse",
                   !.buf = send_packet_udp(wire.type, wire.topic,
                                           wire.payload)]
    /\ UNCHANGED <<vars, b64, udp, stream, echo, field, tcp>>

WireParse ==
    /\ wire.pc = "parse"
    /\ wire' = [wire EXCEPT !.pc = "done",
                            !.res = parse_datagram(wire.buf, wire.w)]
    /\ UNCHANGED <<vars, b64, udp, stream, echo, field, tcp>>

NextWire == WireSend \/ WireParse

SpecWire == InitWire /\ [][NextWire]_allvars

\* C17: the five tags differ from each other, the broker takes what the
\* client sends as SUBSCRIBE, PUBLISH and TERM for that, and the client
\* takes the broker's ACK and DELIVER tags for that.
C17_TagsAgree ==
    (/\ wire.pc = "done" /\ wire.given = "packet"
     /\ wire.type \in {SUBSCRIBE, PUBLISH, TERM}) =>
        /\ Cardinality({TYPE_SUBSCRIBE, TYPE_PUBLISH, TYPE_MSG, TYPE_ACK,
                        TYPE_TERM}) = 5
        /\ Cardinality({SUBSCRIBE, PUBLISH, MSG, ACK, TERM}) = 5
        /\ wire.type = SUBSCRIBE => Dispatch(wire.res.type) = "subscribe"
        /\ wire.type = PUBLISH => Dispatch(wire.res.type) = "publish"
        /\ wire.type = TERM => Dispatch(wire.res.type) = "terminate"
        /\ Recognise(TYPE_ACK) = "ack"
        /\ Recognise(TYPE_MSG) = "deliver"

\* C18: the datagram of send_packet_udp is the header (type, length of the
\* topic, length of the payload, most significant byte first), the topic and
\* the payload, 12 + |topic| + |payload| bytes, and parse_datagram gives the
\* three back.
C18_DatagramLayoutAndRoundTrip ==
    (wire.pc = "done" /\ wire.given = "packet") =>
        LET b == wire.buf
            tl == Len(wire.topic)
            pl == Len(wire.payload)
        IN  /\ Len(b) = 12 + tl + pl
            /\ wire.type >= 0 =>
                   b[1] * 2^24 + b[2] * 2^16 + b[3] * 2^8 + b[4] = wire.type
            /\ wire.type = -1 => SubSeq(b, 1, 4) = <<255, 255, 255, 255>>
            /\ SubSeq(b, 5, 8) = <<0, 0, 0, tl>>
            /\ SubSeq(b, 9, 12) = <<0, 0, 0, pl>>
            /\ SubSeq(b, 13, 12 + tl) = wire.topic
            /\ SubSeq(b, 13 + tl, 12 + tl + pl) = wire.payload
            /\ wire.res.ret = "true"
            /\ wire.res.type = wire.type
            /\ wire.res.topic = wire.topic
            /\ wire.res.payload = wire.payload

C18_Witness ==
    /\ wire.pc = "done" /\ wire.given = "packet"
    /\ wire.type = 16909060
    /\ wire.topic = <<65, 66>> /\ wire.payload = <<65, 61>>
    /\ wire.buf = <<1, 2, 3, 4, 0, 0, 0, 2, 0, 0, 0, 2, 65, 66, 65, 61>>
    /\ wire.res.ret = "true" /\ wire.res.type = wire.type
    /\ wire.res.topic = wire.topic /\ wire.res.payload = wire.payload

\* The topic_length bytes and the payload_length bytes a header declares
\* lie within the n - 12 bytes that follow it.
Fits(tlen, plen, n) ==
    /\ tlen >= 0 /\ plen >= 0
    /\ tlen <= n - 12
    /\ plen <= n - 12 - tlen

\* C20: parse_datagram returns false, and reads no byte beyond the n
\* received, for a datagram of less than 12 bytes and for one whose declared
\* lengths do not fit in the bytes after the header.
C20_ParseRejectsWhatDoesNotFit ==
    (/\ wire.pc = "done" /\ wire.given = "datagram"
     /\ \/ Len(wire.buf) < 12
        \/ ~Fits(ntohl(SubSeq(wire.buf, 5, 8)), ntohl(SubSeq(wire.buf, 9, 12)),
                 Len(wire.buf)))
        => (wire.res.ret = "false" /\ ~wire.res.beyond)

\* --------------------------------- server.cpp, recv on a stream of bytes

\* The frames a peer sends on the connection.
MaxFrames == 2

\* struct Message { int type; char topic[]; int payload_len; char content[] }:
\* the fields in the order they lie in memory. A piece of a frame is taken to
\* end where a field ends.
Fields == <<"type", "topic", "payload_len", "content">>
FrameUnits == Len(Fields)

\* The fields of a frame as they travel.
Units(f) ==
    << [f |-> "type", v |-> f.type],
       [f |-> "topic", v |-> f.topic],
       [f |-> "payload_len", v |-> 1],
       [f |-> "content", v |-> "x"] >>

\* msg.type and msg.topic, read from whatever lies at their place: bytes of
\* an int read as text, or of text read as an int, are taken for no topic
\* and no tag.
TypeOf(m) == IF m[1].f \in {"type", "payload_len"} THEN m[1].v ELSE 0
TopicOf(m) == IF m[2].f \in {"topic", "content"} THEN m[2].v ELSE ""

\* A connection just accepted: `Message msg;` holds what the stack held,
\* nothing is sent yet.
InitStream ==
    /\ BrokerInit
    /\ b64 = Off /\ wire = Off /\ udp = Off
    /\ echo = Off /\ field = Off /\ tcp = Off
    /\ \E t \in Topics \cup {""} :
          stream = [pc |-> "recv", peer |-> "open", sent |-> 0,
                    inflight |-> <<>>,
                    msg |-> << [f |-> "type", v |-> 0],
                               [f |-> "topic", v |-> t],
                               [f |-> "payload_len", v |-> 0],
                               [f |-> "content", v |-> ""] >>,
                    n |-> 0, acks |-> 0]

\* The peer sends a whole frame.
StreamSend(f) ==
    /\ stream.peer = "open"
    /\ stream.pc # "closed"
    /\ stream.sent < MaxFrames
    /\ stream' = [stream EXCEPT !.sent = @ + 1,
                                !.inflight = @ \o Units(f)]
    /\ UNCHANGED <<vars, b64, wire, udp, echo, field, tcp>>

\* The peer closes its end.
StreamPeerClose ==
    /\ stream.peer = "open"
    /\ stream' = [stream EXCEPT !.peer = "closed"]
    /\ UNCHANGED <<vars, b64, wire, udp, echo, field, tcp>>

\* int n = recv(clientSock, (char*)&msg, sizeof(msg), 0) with n > 0: the k
\* fields that have arrived, at most sizeof(msg), are written from the start
\* of msg.
StreamRecv(k) ==
    /\ stream.pc = "recv"
    /\ k \in 1..FrameUnits
    /\ k <= Len(stream.inflight)
    /\ stream' = [stream EXCEPT
                     !.pc = "dispatch",
                     !.n = k,
                     !.msg = [i \in 1..FrameUnits |->
                                 IF i <= k THEN stream.inflight[i] ELSE @[i]],
                     !.inflight = SubSeq(@, k + 1, Len(@))]
    /\ UNCHANGED <<vars, b64, wire, udp, echo, field, tcp>>

\* recv returns 0 when the peer has closed and nothing is left to read:
\* closesocket(clientSock); return.
StreamRecvZero ==
    /\ stream.pc = "recv"
    /\ stream.peer = "closed"
    /\ stream.inflight = <<>>
    /\ stream' = [stream EXCEPT !.pc = "closed", !.n = 0]
    /\ UNCHANGED <<vars, b64, wire, udp, echo, field, tcp>>

\* The if / else if on msg.type that follows every recv with n > 0.
StreamDispatch ==
    /\ stream.pc = "dispatch"
    /\ stream' =
          IF Dispatch(TypeOf(stream.msg)) \in {"subscribe", "publish"}
          THEN [stream EXCEPT !.pc = "recv", !.acks = @ + 1]
          ELSE IF Dispatch(TypeOf(stream.msg)) = "terminate"
          THEN [stream EXCEPT !.pc = "closed"]
          ELSE [stream EXCEPT !.pc = "recv"]
    /\ UNCHANGED <<vars, b64, wire, udp, echo, field, tcp>>

NextStream ==
    \/ \E f \in Frames : StreamSend(f)
    \/ StreamPeerClose
    \/ \E k \in 1..FrameUnits : StreamRecv(k)
    \/ StreamRecvZero
    \/ StreamDispatch

SpecStream == InitStream /\ [][NextStream]_allvars

\* msg holds the n = sizeof(msg) bytes of one frame, each field in its place.
WholeFrame(m, n) ==
    /\ n = FrameUnits
    /\ \A i \in 1..FrameUnits : m[i].f = Fields[i]

\* C21: what the broker dispatches is a frame of which every byte has been
\* received, and a read of zero bytes closes the connection.
C21_DispatchOnlyWholeFrames ==
    /\ stream.pc = "dispatch" => WholeFrame(stream.msg, stream.n)
    /\ (stream.pc = "closed" /\ stream.n = 0) => stream.peer = "closed"

\* The sends a complete fan-out has attempted for registry entry k.
AttemptsFor(k) == {i \in DOMAIN fanout : fanout[i] = k}

\* C22: a complete fan-out has attempted one send for every registry entry
\* that matches the PUBLISH, whether the sends before it failed or not, and
\* the PUBLISH is then answered by its ACK.
C22_FanoutSurvivesFailedSend ==
    \A p \in Conn :
        /\ pc[p] = "pub_ack" =>
              \A k \in DOMAIN clients :
                  Matches(clients[k], msg[p]) =>
                      Cardinality(AttemptsFor(k)) = 1
        /\ (pc[p] = "recv" /\ msg[p].type = TYPE_PUBLISH) =>
              reply[p] = <<AckFor(msg[p])>>

\* The fan-out of connection 2's PUBLISH has sent to entry 1, whose session
\* ended and whose socket was closed before the fan-out began (no connection
\* took its handle since), and then to entry 2.
C22_Witness ==
    /\ pc[2] = "pub_ack"
    /\ fanout = <<1, 2>>
    /\ 1 \notin fanLive
    /\ clients[1].sock \notin open
    /\ clients[1].sock # clients[2].sock

\* The handler of e is walking the registry for a SUBSCRIBE(T), e having
\* subscribed to T before.
Resubscribing(e) == pc[e] = "sub_loop" /\ msg[e].topic \in requested[e]

\* C23: a SUBSCRIBE(T) of an endpoint that has subscribed to T before leaves
\* the registry as it is and is answered by an ACK(T), and the fan-out of a
\* later PUBLISH on T sends that endpoint exactly one frame.
C23_ResubscribeIsNoOp ==
    /\ [][\A e \in Conn : Resubscribing(e) => clients' = clients]_allvars
    /\ [](\A e \in Conn :
              (pc[e] = "recv" /\ msg[e].type = TYPE_SUBSCRIBE) =>
                  reply[e] = <<AckFor(msg[e])>>)
    /\ [](\A p \in Conn, e \in fanLive \cap Serving :
              (pc[p] = "pub_ack" /\ msg[p].topic \in requested[e]) =>
                  Cardinality(FanoutTo(SockOf(e))) = 1)

\* ------------------------------------ "Assign 5": client.c and server.c

\* #define TYPE_DATA 1; TYPE_ACK and TYPE_TERM are 2 and 3 here as well.
TYPE_DATA == 1

\* typedef struct { int type; char content[MSG_LEN]; } Message, as the
\* fields travel. A piece of a message ends where a field ends.
EchoMsg(ty) == << [f |-> "type", v |-> ty], [f |-> "content", v |-> "x"] >>
EchoUnits == 2

\* A client started with tcp (connected) or udp, the server waiting. Of a
\* datagram socket the fields c2s and s2c hold the datagrams on their way,
\* of a connection the bytes.
InitEcho ==
    /\ BrokerInit
    /\ b64 = Off /\ wire = Off /\ udp = Off
    /\ stream = Off /\ field = Off /\ tcp = Off
    /\ \E tr \in {"tcp", "udp"} :
          echo = [transport |-> tr, cpc |-> "read", lines |-> 0,
                  c2s |-> <<>>, s2c |-> <<>>, lost |-> 0,
                  spc |-> "recv", smsg |-> EchoMsg(0), acks |-> 0]

\* main's loop in client.c: fgets a line that is not "exit", send_message,
\* and go to receive_ack.
EchoSendData ==
    /\ echo.cpc = "read"
    /\ echo.lines < MaxLines
    /\ echo' = [echo EXCEPT !.cpc = "wait_ack", !.lines = @ + 1,
                            !.c2s = @ \o EchoMsg(TYPE_DATA)]
    /\ UNCHANGED <<vars, b64, wire, udp, stream, field, tcp>>

\* The line is "exit": a TERM message is sent, break, close(sock).
EchoSendTerm ==
    /\ echo.cpc = "read"
    /\ echo' = [echo EXCEPT !.cpc = "closed",
                            !.c2s = @ \o EchoMsg(TYPE_TERM)]
    /\ UNCHANGED <<vars, b64, wire, udp, stream, field, tcp>>

\* receive_ack: one recv or recvfrom, which no timeout ends, returns with
\* what has arrived (k fields of the stream, or one datagram).
EchoRecvAck(k) ==
    /\ echo.cpc = "wait_ack"
    /\ \/ /\ echo.transport = "tcp"
          /\ k <= Len(echo.s2c)
       \/ /\ echo.transport = "udp"
          /\ k = EchoUnits
          /\ echo.s2c # <<>>
    /\ echo' = [echo EXCEPT !.cpc = "read",
                            !.s2c = SubSeq(@, k + 1, Len(@))]
    /\ UNCHANGED <<vars, b64, wire, udp, stream, field, tcp>>

\* What the server does with msg after a receive: an ACK to the sender for
\* TYPE_DATA, the end of the session for TYPE_TERM on a connection.
EchoHandle(e, m) ==
    IF TypeOf(m) = TYPE_DATA
    THEN [e EXCEPT !.smsg = m, !.acks = @ + 1,
                   !.s2c = IF e.cpc = "closed" THEN @
                           ELSE @ \o EchoMsg(TYPE_ACK)]
    ELSE IF TypeOf(m) = TYPE_TERM /\ e.transport = "tcp"
    THEN [e EXCEPT !.smsg = m, !.spc = "closed"]
    ELSE [e EXCEPT !.smsg = m]

\* One round of handle_tcp_client: recv(client_socket, &msg, sizeof(Message))
\* returns the k fields that have arrived, written from the start of msg.
EchoServerTcp(k) ==
    /\ echo.transport = "tcp"
    /\ echo.spc = "recv"
    /\ k <= Len(echo.c2s)
    /\ echo' = EchoHandle(
                  [echo EXCEPT !.c2s = SubSeq(@, k + 1, Len(@))],
                  [i \in 1..EchoUnits |->
                      IF i <= k THEN echo.c2s[i] ELSE echo.smsg[i]])
    /\ UNCHANGED <<vars, b64, wire, udp, stream, field, tcp>>

\* bytes_received <= 0: the client has closed and nothing is left to read.
EchoServerTcpZero ==
    /\ echo.transport = "tcp"
    /\ echo.spc = "recv"
    /\ echo.cpc = "closed"
    /\ echo.c2s = <<>>
    /\ echo' = [echo EXCEPT !.spc = "closed"]
    /\ UNCHANGED <<vars, b64, wire, udp, stream, field, tcp>>

\* handle_udp_message: recvfrom takes one datagram.
EchoServerUdp ==
    /\ echo.transport = "udp"
    /\ echo.c2s # <<>>
    /\ echo' = EchoHandle(
                  [echo EXCEPT !.c2s = SubSeq(@, EchoUnits + 1, Len(@))],
                  SubSeq(echo.c2s, 1, EchoUnits))
    /\ UNCHANGED <<vars, b64, wire, udp, stream, field, tcp>>

\* A datagram is lost on its way to the server, or on its way back.
EchoLoseRequest ==
    /\ echo.transport = "udp"
    /\ echo.c2s # <<>>
    /\ echo' = [echo EXCEPT
                   !.c2s = SubSeq(@, EchoUnits + 1, Len(@)),
                   !.lost = IF TypeOf(echo.c2s) = TYPE_DATA
                            THEN @ + 1 ELSE @]
    /\ UNCHANGED <<vars, b64, wire, udp, stream, field, tcp>>

EchoLoseReply ==
    /\ echo.transport = "udp"
    /\ echo.s2c # <<>>
    /\ echo' = [echo EXCEPT !.s2c = SubSeq(@, EchoUnits + 1, Len(@))]
    /\ UNCHANGED <<vars, b64, wire, udp, stream, field, tcp>>

\* The steps of the two programs that wait for no input.
EchoClient == \E k \in 1..EchoUnits : EchoRecvAck(k)

EchoServer ==
    \/ \E k \in 1..EchoUnits : EchoServerTcp(k)
    \/ EchoServerTcpZero
    \/ EchoServerUdp

NextEcho ==
    \/ EchoSendData
    \/ EchoSendTerm
    \/ EchoClient
    \/ EchoServer
    \/ EchoLoseRequest
    \/ EchoLoseReply

\* Both programs run when they can.
SpecEcho ==
    /\ InitEcho
    /\ [][NextEcho]_allvars
    /\ WF_allvars(EchoClient)
    /\ WF_allvars(EchoServer)

\* C24: once the server has read all that was sent to it, it has sent one
\* ACK for each DATA message that reached it, and none for anything else.
C24_OneAckPerData ==
    echo.c2s = <<>> => echo.acks = echo.lines - echo.lost

\* C25: the datagram client waiting for the ACK of a DATA message comes back
\* to reading the next line, also when the ACK is lost.
C25_EchoClientWaitEnds ==
    (echo.transport = "udp" /\ echo.cpc = "wait_ack") ~> (echo.cpc = "read")

\* --------------------------- "Assign 5": a line through the content field

\* #define MSG_LEN 1024
MSG_LEN == 1024

\* The longest of the short lines tried with every character.
MaxLine == 3

\* The lines typed: every short line over 'a', 'b' and 0xff, and lines of
\* 'a' of the lengths about which the encoding outgrows the field, up to the
\* MSG_LEN - 1 characters fgets takes.
LongLens == {764, 765, 766, 767, 768, 769, MSG_LEN - 1}
Lines ==
    SeqUpTo({97, 98, 255}, MaxLine)
        \cup {[i \in 1..n |-> 97] : n \in LongLens}

\* What may lie in memory after msg.content, up to the first NUL.
Overruns == {<<>>, <<65, 65, 65, 65>>}

\* static const char base64_chars[], the same in client.c and server.c.
base64_chars == B64

\* base64_encode of client.c: the character at place j of the output comes
\* from the triple of its group, the last places are overwritten with '='.
base64_encode(input) ==
    LET input_len == Len(input)
        output_len == 4 * ((input_len + 2) \div 3)
        Octet(i) == IF i <= input_len THEN input[i] ELSE 0
        Triple(g) == Octet(3 * g + 1) * 65536 + Octet(3 * g + 2) * 256
                         + Octet(3 * g + 3)
        pad == (3 - (input_len % 3)) % 3
    IN  [j \in 1..output_len |->
            IF j > output_len - pad THEN 61
            ELSE base64_chars[(Triple((j - 1) \div 4)
                                  \div 64^(3 - ((j - 1) % 4))) % 64]]

\* strncpy(msg.content, encoded, MSG_LEN): at most MSG_LEN characters, and a
\* NUL after them only when there are fewer.
strncpy(encoded) ==
    [content |-> SubSeq(encoded, 1,
                        IF Len(encoded) < MSG_LEN THEN Len(encoded)
                        ELSE MSG_LEN),
     terminated |-> Len(encoded) < MSG_LEN]

\* strchr(base64_chars, ch) - base64_chars, in an unsigned char: the place
\* of ch, 64 for the NUL. (No other character comes up here.)
IndexOf(ch) ==
    IF \E i \in 0..63 : base64_chars[i] = ch
    THEN CHOOSE i \in 0..63 : base64_chars[i] = ch
    ELSE 64

\* base64_decode of server.c, for the C string text, up to the first NUL
\* of what it returns. input[input_len - 1] of an empty string is a byte of
\* msg.type, never '='.
base64_decode(text) ==
    LET input_len == Len(text)
        At(i) == IF i >= 1 /\ i <= input_len THEN text[i] ELSE 0
        output_len == (input_len \div 4) * 3
                          - (IF At(input_len) = 61 THEN 1 ELSE 0)
                          - (IF At(input_len - 1) = 61 THEN 1 ELSE 0)
        a(g) == IndexOf(At(4 * g + 1))
        b(g) == IndexOf(At(4 * g + 2))
        c(g) == IF At(4 * g + 3) = 61 THEN 0 ELSE IndexOf(At(4 * g + 3))
        d(g) == IF At(4 * g + 4) = 61 THEN 0 ELSE IndexOf(At(4 * g + 4))
        Byte(g, j) ==
            IF j = 0 THEN BitOr(a(g) * 4, b(g) \div 16) % 256
            ELSE IF j = 1 THEN BitOr(b(g) * 16, c(g) \div 4) % 256
            ELSE BitOr(c(g) * 64, d(g)) % 256
        output == [p \in 1..(IF output_len > 0 THEN output_len ELSE 0) |->
                      Byte((p - 1) \div 3, (p - 1) % 3)]
    IN  IF \E p \in DOMAIN output : output[p] = 0
        THEN SubSeq(output, 1,
                    (CHOOSE p \in DOMAIN output :
                        /\ output[p] = 0
                        /\ \A q \in 1..(p - 1) : output[q] # 0) - 1)
        ELSE output

\* A line read by fgets, its newline removed.
InitField ==
    /\ BrokerInit
    /\ b64 = Off /\ wire = Off /\ udp = Off
    /\ stream = Off /\ echo = Off /\ tcp = Off
    /\ \E l \in Lines :
          field = [pc |-> "encode", line |-> l, encoded |-> <<>>,
                   content |-> <<>>, terminated |-> FALSE,
                   text |-> <<>>, decoded |-> <<>>]

\* send_message: char *encoded = base64_encode(input);
FieldEncode ==
    /\ field.pc = "encode"
    /\ field' = [field EXCEPT !.pc = "copy",
                              !.encoded = base64_encode(field.line)]
    /\ UNCHANGED <<vars, b64, wire, udp, stream, echo, tcp>>

\* send_message: strncpy into msg.content, and the message is sent.
FieldCopy ==
    /\ field.pc = "copy"
    /\ field' = [field EXCEPT
                    !.pc = "decode",
                    !.content = strncpy(field.encoded).content,
                    !.terminated = strncpy(field.encoded).terminated]
    /\ UNCHANGED <<vars, b64, wire, udp, stream, echo, tcp>>

\* The server's base64_decode(msg.content): the string it reads ends at the
\* field's NUL, or, the field having none, somewhere after the field.
FieldDecode(over) ==
    /\ field.pc = "decode"
    /\ field.terminated => over = <<>>
    /\ field' = [field EXCEPT
                    !.pc = "done",
                    !.text = field.content \o over,
                    !.decoded = base64_decode(field.content \o over)]
    /\ UNCHANGED <<vars, b64, wire, udp, stream, echo, tcp>>

NextField ==
    \/ FieldEncode
    \/ FieldCopy
    \/ \E over \in Overruns : FieldDecode(over)

SpecField == InitField /\ [][NextField]_allvars

\* C26: the encoding of every line fits in the content field with its
\* terminator, the server decodes the whole encoding, and what it decodes is
\* the line.
C26_EncodedLineFitsField ==
    field.pc = "done" =>
        /\ field.terminated
        /\ field.text = field.encoded
        /\ field.decoded = field.line

\* ----------------------------- client.cpp, a publisher and how it ends

\* The int a little-endian host (the broker is a Windows program) finds in
\* four bytes of memory; the fourth byte is below 128 here.
NativeInt(b) == b[1] + b[2] * 256 + b[3] * 65536 + b[4] * 2^24

\* msg.type as handle_client finds it after recv has written a packet of
\* send_packet_tcp to the start of msg: the header's first field, which the
\* client has put through htonl.
BrokerReads(type) == NativeInt(htonl(type))

\* A publisher on a datagram socket, or one on a connection the broker has
\* accepted.
InitPub ==
    /\ BrokerInit
    /\ b64 = Off /\ wire = Off
    /\ stream = Off /\ echo = Off /\ field = Off
    /\ \/ /\ udp = [pc |-> "pub_getline", role |-> "pub", left |-> 0,
                    lines |-> 0, q |-> NoDatagram, elapsed |-> 0,
                    waited |-> 0, ok |-> FALSE]
          /\ tcp = Off
       \/ /\ udp = Off
          /\ tcp = [pc |-> "pub_getline", lines |-> 0, c2b |-> <<>>,
                    b2c |-> <<>>, bpc |-> "recv", ok |-> FALSE]

\* while (getline(cin, line)): send_packet_tcp(PUBLISH), or leave the loop
\* at the end of the input or when the send failed.
TcpPublish(eof, sent) ==
    /\ tcp.pc = "pub_getline"
    /\ eof \/ tcp.lines < MaxLines
    /\ tcp' = IF eof \/ ~sent
              THEN [tcp EXCEPT !.pc = "term_send"]
              ELSE [tcp EXCEPT !.pc = "pub_wait", !.lines = @ + 1,
                               !.ok = FALSE,
                               !.c2b = Append(@, BrokerReads(PUBLISH))]
    /\ UNCHANGED <<vars, b64, wire, udp, stream, echo, field>>

\* recv_packet_tcp returns: with a packet, or with false once the broker has
\* closed the connection. Until then it blocks.
TcpRecvReturns == tcp.b2c # <<>> \/ tcp.bpc = "closed"

\* if (recv_packet_tcp(fd, ty, tp, pl) && ty == ACK) got_ack = true;
TcpPubWait ==
    /\ tcp.pc = "pub_wait"
    /\ TcpRecvReturns
    /\ tcp' = [tcp EXCEPT !.pc = "pub_getline",
                          !.ok = tcp.b2c # <<>> /\ Head(tcp.b2c) = ACK,
                          !.b2c = IF @ = <<>> THEN @ ELSE Tail(@)]
    /\ UNCHANGED <<vars, b64, wire, udp, stream, echo, field>>

\* if (send_packet_tcp(fd, TERM, topic, "")) { recv_packet_tcp ... }
TcpTermSend(sent) ==
    /\ tcp.pc = "term_send"
    /\ tcp' = IF sent
              THEN [tcp EXCEPT !.pc = "term_wait",
                               !.c2b = Append(@, BrokerReads(TERM))]
              ELSE [tcp EXCEPT !.pc = "closed"]
    /\ UNCHANGED <<vars, b64, wire, udp, stream, echo, field>>

\* The recv_packet_tcp after TERM returns; ::close(fd); return 0.
TcpTermWait ==
    /\ tcp.pc = "term_wait"
    /\ TcpRecvReturns
    /\ tcp' = [tcp EXCEPT !.pc = "closed",
                          !.b2c = IF @ = <<>> THEN @ ELSE Tail(@)]
    /\ UNCHANGED <<vars, b64, wire, udp, stream, echo, field>>

\* One round of handle_client on the publisher's connection: recv, and the
\* branch msg.type selects; a frame the broker sends reaches the client as
\* the int its ntohl makes of the type.
TcpBroker ==
    /\ tcp.pc # "off"
    /\ tcp.bpc = "recv"
    /\ tcp.c2b # <<>>
    /\ tcp' = IF Dispatch(Head(tcp.c2b)) \in {"subscribe", "publish"}
              THEN [tcp EXCEPT !.c2b = Tail(@),
                               !.b2c = Append(@, BrokerReads(TYPE_ACK))]
              ELSE IF Dispatch(Head(tcp.c2b)) = "terminate"
              THEN [tcp EXCEPT !.c2b = Tail(@), !.bpc = "closed"]
              ELSE [tcp EXCEPT !.c2b = Tail(@)]
    /\ UNCHANGED <<vars, b64, wire, udp, stream, echo, field>>

\* recv returns 0 after the client has closed: closesocket, return.
TcpBrokerZero ==
    /\ tcp.pc = "closed"
    /\ tcp.bpc = "recv"
    /\ tcp.c2b = <<>>
    /\ tcp' = [tcp EXCEPT !.bpc = "closed"]
    /\ UNCHANGED <<vars, b64, wire, udp, stream, echo, field>>

\* The connection fails while the client is still there: the broker's recv
\* returns SOCKET_ERROR, n <= 0, closesocket, return.
TcpFail ==
    /\ tcp.pc \notin {"off", "closed"}
    /\ tcp.bpc = "recv"
    /\ tcp' = [tcp EXCEPT !.bpc = "closed", !.c2b = <<>>]
    /\ UNCHANGED <<vars, b64, wire, udp, stream, echo, field>>

\* The steps of publisher and broker that wait for no input.
PubRuns ==
    \/ UdpPubWait
    \/ UdpTermSend
    \/ UdpTermWait
    \/ TcpPubWait
    \/ \E sent \in BOOLEAN : TcpTermSend(sent)
    \/ TcpTermWait
    \/ TcpBroker
    \/ TcpBrokerZero

NextPub ==
    \/ \E d \in Datagrams : UdpDeliver(d)
    \/ UdpTick
    \/ \E eof \in BOOLEAN, sent \in BOOLEAN : UdpPublish(eof, sent)
    \/ \E eof \in BOOLEAN, sent \in BOOLEAN : TcpPublish(eof, sent)
    \/ TcpFail
    \/ PubRuns

\* Publisher and broker run when they can, and time does not stop; nothing
\* makes a connection fail.
SpecPub ==
    /\ InitPub
    /\ [][NextPub]_allvars
    /\ WF_allvars(PubRuns)
    /\ SF_allvars(UdpTick)

\* The publisher's getline has reported the end of the input.
InputEnded == udp.pc = "term_send" \/ tcp.pc = "term_send"

\* C27: a publisher whose input has ended closes its socket and exits.
C27_PublisherTerminates ==
    InputEnded ~> (udp.pc = "closed" \/ tcp.pc = "closed")

====
